---- MODULE Spec2Model ----
(***************************************************************************)
(* Model of psp/data/data_sources/pv.py: the None-aware timestamp minimum  *)
(* min_timestamp and the file-backed NetcdfPvDataSource (open, get,        *)
(* list_pv_ids, min_ts, max_ts, without_future, __getstate__,              *)
(* __setstate__).                                                          *)
(*                                                                         *)
(* Python objects live on a heap: heap[o] is the __dict__ of object o, a   *)
(* function from attribute names to values.  Every method takes the heap   *)
(* and the reference of its receiver and yields a record                   *)
(*   [heap |-> the heap afterwards, ret |-> the returned value,            *)
(*    err |-> "" or the error the call raised].                            *)
(* Timestamps are integers (seconds); Timestamp | None is <<>> for None    *)
(* and <<t>> for the timestamp t.                                          *)
(***************************************************************************)
EXTENDS Integers, Sequences, FiniteSets, TLC

VARIABLES
    heap,     \* sequence of the NetcdfPvDataSource objects created so far
    pickled,  \* the snapshot in flight: None or [state |-> dict, of |-> source object]
    last,     \* the most recent call: [op, self, args, err, ret]
    probe     \* arguments and results of a direct min_timestamp evaluation

vars == <<heap, pickled, last, probe>>

-----------------------------------------------------------------------------
(* Bounds of the model *)

MaxInst == 3

MaxProbeTs == 3

(* timedelta(minutes=blackout): seconds in a minute *)
Minute == 60

-----------------------------------------------------------------------------
(* Values *)

None == <<>>

Some(t) == <<t>>

_ID == "pv_id"

_TS == "ts"

EmptyMap == [k \in {} |-> k]

Range(s) == {s[k] : k \in DOMAIN s}

SetMin(S) == CHOOSE m \in S : \A t \in S : m <= t

SetMax(S) == CHOOSE m \in S : \A t \in S : m >= t

NoError == ""

(* The files on disk, by path: the physical names of the two dimensions,   *)
(* the raw (numeric) entity ids in store order, and the timestamps.        *)
Files ==
    ("a.nc" :> [idname |-> "pv_id", tsname |-> "ts",
                ids |-> <<2, 1>>, ts |-> {90, 120, 180}])
    @@
    ("b.nc" :> [idname |-> "id", tsname |-> "time",
                ids |-> <<7>>, ts |-> {30, 50}])

(* str() of a one-digit id, as astype(str) produces it *)
StrTable == <<"0", "1", "2", "3", "4", "5", "6", "7", "8", "9">>

astype_str(ids) == [k \in DOMAIN ids |-> StrTable[ids[k] + 1]]

-----------------------------------------------------------------------------
(* min_timestamp: None is greater than every timestamp *)

(* variant: None taken as smaller than every timestamp *)
min_timestamp_none_least(a, b) ==
    IF a = None \/ b = None THEN None
    ELSE IF b[1] < a[1] THEN b ELSE a

min_timestamp(a, b) ==
    IF a = None
    THEN IF b = None THEN None ELSE b
    ELSE IF b = None THEN a
         ELSE IF b[1] < a[1] THEN b ELSE a

-----------------------------------------------------------------------------
(* Attribute access *)

SetAttr(obj, k, v) ==
    [x \in (DOMAIN obj) \cup {k} |-> IF x = k THEN v ELSE obj[x]]

_set_max_ts(h, o, ts) == [h EXCEPT ![o] = SetAttr(h[o], "_max_ts", ts)]

-----------------------------------------------------------------------------
(* xarray: open_dataset, Dataset.rename *)

open_dataset(path) ==
    LET f == Files[path]
    IN  (f.idname :> f.ids) @@ (f.tsname :> f.ts)

RenameTarget(m, n) == IF n \in DOMAIN m THEN m[n] ELSE n

RenameOk(ds, m) ==
    /\ DOMAIN m \subseteq DOMAIN ds
    /\ \A n1, n2 \in DOMAIN ds :
          n1 # n2 => RenameTarget(m, n1) # RenameTarget(m, n2)

rename(ds, m) ==
    [n \in {RenameTarget(m, x) : x \in DOMAIN ds} |->
        ds[CHOOSE x \in DOMAIN ds : RenameTarget(m, x) = n]]

(* _open: build the rename map, open the file, rename, ids to str.  The    *)
(* handle is identified by the object that opened it.                      *)
_open(h, o, readable) ==
    LET self == h[o]
        m_id == IF self["_id_dim_name"] # _ID
                THEN (self["_id_dim_name"] :> _ID) ELSE EmptyMap
        m_ts == IF self["_timestamp_dim_name"] # _TS
                THEN (self["_timestamp_dim_name"] :> _TS) ELSE EmptyMap
        rename_map == self["_rename"] @@ m_ts @@ m_id
        raw == open_dataset(self["_path"])
        data == rename(raw, rename_map)
        h1 == [h EXCEPT ![o] = SetAttr(self, "_data", [handle |-> o, ds |-> data])]
        conv == (_ID :> astype_str(data[_ID])) @@ data
        h2 == [h EXCEPT ![o] = SetAttr(self, "_data", [handle |-> o, ds |-> conv])]
    IN  IF ~readable THEN [heap |-> h, ret |-> None, err |-> "StorageIO"]
        ELSE IF ~RenameOk(raw, rename_map)
             THEN [heap |-> h, ret |-> None, err |-> "Configuration"]
        ELSE IF _ID \notin DOMAIN data
             THEN [heap |-> h1, ret |-> None, err |-> "Configuration"]
        ELSE [heap |-> h2, ret |-> None, err |-> NoError]

-----------------------------------------------------------------------------
(* NetcdfPvDataSource.__init__ *)

__init__(h, filepath, timestamp_dim_name, id_dim_name, rename_arg, readable) ==
    LET o == Len(h) + 1
        fields == ("_path" :> filepath)
                  @@ ("_timestamp_dim_name" :> timestamp_dim_name)
                  @@ ("_id_dim_name" :> id_dim_name)
                  @@ ("_rename" :> rename_arg)
        r == _open(Append(h, fields), o, readable)
    IN  IF r.err # NoError THEN [heap |-> r.heap, ret |-> 0, err |-> r.err]
        ELSE [heap |-> _set_max_ts(r.heap, o, None), ret |-> o, err |-> NoError]

-----------------------------------------------------------------------------
(* Reads *)

InSlice(t, start_ts, end_ts) ==
    /\ (start_ts = None \/ start_ts[1] <= t)
    /\ (end_ts = None \/ t <= end_ts[1])

(* get: pv_ids is a non-empty sequence of ids (a single id is a sequence   *)
(* of one); sel raises on an id that is not in the index and slices the    *)
(* timestamps by label, both ends included.                                *)
(* variant: the requested end is used as it is, without the cutoff *)
get_without_cutoff(h, o, pv_ids, start_ts, end_ts) ==
    LET self == h[o]
        ds == self["_data"].ds
    IN  IF "_data" \notin DOMAIN self \/ "_max_ts" \notin DOMAIN self
        THEN [heap |-> h, ret |-> None, err |-> "AttributeError"]
        ELSE IF _TS \notin DOMAIN ds
             \/ \E k \in DOMAIN pv_ids : pv_ids[k] \notin Range(ds[_ID])
        THEN [heap |-> h, ret |-> None, err |-> "NotFound"]
        ELSE [heap |-> h,
              ret |-> [pv_id |-> pv_ids,
                       ts |-> {t \in ds[_TS] : InSlice(t, start_ts, end_ts)}],
              err |-> NoError]

(* variant: the effective end is stored on the receiver before selecting *)
get_storing_end(h, o, pv_ids, start_ts, end_ts) ==
    LET self == h[o]
        end == min_timestamp(self["_max_ts"], end_ts)
        ds == self["_data"].ds
        h1 == _set_max_ts(h, o, end)
    IN  IF "_data" \notin DOMAIN self \/ "_max_ts" \notin DOMAIN self
        THEN [heap |-> h, ret |-> None, err |-> "AttributeError"]
        ELSE IF _TS \notin DOMAIN ds
             \/ \E k \in DOMAIN pv_ids : pv_ids[k] \notin Range(ds[_ID])
        THEN [heap |-> h1, ret |-> None, err |-> "NotFound"]
        ELSE [heap |-> h1,
              ret |-> [pv_id |-> pv_ids,
                       ts |-> {t \in ds[_TS] : InSlice(t, start_ts, end)}],
              err |-> NoError]

get(h, o, pv_ids, start_ts, end_ts) ==
    LET self == h[o]
        end == min_timestamp(self["_max_ts"], end_ts)
        ds == self["_data"].ds
    IN  IF "_data" \notin DOMAIN self \/ "_max_ts" \notin DOMAIN self
        THEN [heap |-> h, ret |-> None, err |-> "AttributeError"]
        ELSE IF _TS \notin DOMAIN ds
             \/ \E k \in DOMAIN pv_ids : pv_ids[k] \notin Range(ds[_ID])
        THEN [heap |-> h, ret |-> None, err |-> "NotFound"]
        ELSE [heap |-> h,
              ret |-> [pv_id |-> pv_ids,
                       ts |-> {t \in ds[_TS] : InSlice(t, start_ts, end)}],
              err |-> NoError]

list_pv_ids(h, o) ==
    LET self == h[o]
    IN  IF "_data" \notin DOMAIN self
        THEN [heap |-> h, ret |-> None, err |-> "AttributeError"]
        ELSE [heap |-> h, ret |-> self["_data"].ds[_ID], err |-> NoError]

(* variant: the store's first timestamp, not combined with the cutoff *)
min_ts_of_store(h, o) ==
    LET self == h[o]
        ds == self["_data"].ds
    IN  IF "_data" \notin DOMAIN self \/ "_max_ts" \notin DOMAIN self
        THEN [heap |-> h, ret |-> None, err |-> "AttributeError"]
        ELSE IF _TS \notin DOMAIN ds
        THEN [heap |-> h, ret |-> None, err |-> "NotFound"]
        ELSE [heap |-> h, ret |-> Some(SetMin(ds[_TS])), err |-> NoError]

min_ts(h, o) ==
    LET self == h[o]
        ds == self["_data"].ds
    IN  IF "_data" \notin DOMAIN self \/ "_max_ts" \notin DOMAIN self
        THEN [heap |-> h, ret |-> None, err |-> "AttributeError"]
        ELSE IF _TS \notin DOMAIN ds
        THEN [heap |-> h, ret |-> None, err |-> "NotFound"]
        ELSE [heap |-> h,
              ret |-> min_timestamp(Some(SetMin(ds[_TS])), self["_max_ts"]),
              err |-> NoError]

max_ts(h, o) ==
    LET self == h[o]
        ds == self["_data"].ds
    IN  IF "_data" \notin DOMAIN self \/ "_max_ts" \notin DOMAIN self
        THEN [heap |-> h, ret |-> None, err |-> "AttributeError"]
        ELSE IF _TS \notin DOMAIN ds
        THEN [heap |-> h, ret |-> None, err |-> "NotFound"]
        ELSE [heap |-> h,
              ret |-> min_timestamp(Some(SetMax(ds[_TS])), self["_max_ts"]),
              err |-> NoError]

-----------------------------------------------------------------------------
(* Persistence: __getstate__, __setstate__, and copy.copy, which builds    *)
(* the copy through them (object.__reduce_ex__ and copy._reconstruct).     *)

(* variant: the handle is left in the captured state *)
__getstate___with_data(h, o) ==
    [heap |-> h, ret |-> h[o], err |-> NoError]

__getstate__(h, o) ==
    LET d == h[o]
    IN  IF "_data" \notin DOMAIN d
        THEN [heap |-> h, ret |-> None, err |-> "KeyError"]
        ELSE [heap |-> h,
              ret |-> [k \in (DOMAIN d) \ {"_data"} |-> d[k]],
              err |-> NoError]

(* variant: the fields are assigned and the store is not reopened *)
__setstate___lazy(h, o, state, readable) ==
    [heap |-> [h EXCEPT ![o] = state @@ h[o]], ret |-> None, err |-> NoError]

(* variant: reopening ends as construction does, with the cutoff cleared *)
__setstate___clearing(h, o, state, readable) ==
    LET r == _open([h EXCEPT ![o] = state @@ h[o]], o, readable)
    IN  IF r.err # NoError THEN r
        ELSE [heap |-> _set_max_ts(r.heap, o, None), ret |-> None, err |-> NoError]

__setstate__(h, o, state, readable) ==
    _open([h EXCEPT ![o] = state @@ h[o]], o, readable)

copy_copy(h, o, readable) ==
    LET st == __getstate__(h, o)
        new == Len(h) + 1
        r == __setstate__(Append(h, EmptyMap), new, st.ret, readable)
    IN  IF st.err # NoError THEN [heap |-> h, ret |-> 0, err |-> st.err]
        ELSE IF r.err # NoError THEN [heap |-> r.heap, ret |-> 0, err |-> r.err]
        ELSE [heap |-> r.heap, ret |-> new, err |-> NoError]

(* variant: the boundary is now - blackout, without the second *)
without_future_inclusive(h, o, ts, blackout, readable) ==
    LET now == Some(ts - blackout * Minute)
        c == copy_copy(h, o, readable)
    IN  IF c.err # NoError THEN c
        ELSE [heap |-> _set_max_ts(c.heap, c.ret,
                                   min_timestamp(c.heap[o]["_max_ts"], now)),
              ret |-> c.ret, err |-> NoError]

(* variant: the new bound replaces the parent's cutoff *)
without_future_replacing(h, o, ts, blackout, readable) ==
    LET now == Some(ts - blackout * Minute - 1)
        c == copy_copy(h, o, readable)
    IN  IF c.err # NoError THEN c
        ELSE [heap |-> _set_max_ts(c.heap, c.ret, now),
              ret |-> c.ret, err |-> NoError]

(* variant: the cutoff is set on the receiver, not on the copy *)
without_future_in_place(h, o, ts, blackout, readable) ==
    LET now == Some(ts - blackout * Minute - 1)
        c == copy_copy(h, o, readable)
    IN  IF c.err # NoError THEN c
        ELSE [heap |-> _set_max_ts(c.heap, o,
                                   min_timestamp(c.heap[o]["_max_ts"], now)),
              ret |-> c.ret, err |-> NoError]

without_future(h, o, ts, blackout, readable) ==
    LET now == Some(ts - blackout * Minute - 1)
        c == copy_copy(h, o, readable)
    IN  IF c.err # NoError THEN c
        ELSE [heap |-> _set_max_ts(c.heap, c.ret,
                                   min_timestamp(c.heap[o]["_max_ts"], now)),
              ret |-> c.ret, err |-> NoError]

(* pickle.loads: a fresh object, then __setstate__ *)
restore(h, state, readable) ==
    LET new == Len(h) + 1
        r == __setstate__(Append(h, EmptyMap), new, state, readable)
    IN  IF r.err # NoError THEN [heap |-> r.heap, ret |-> 0, err |-> r.err]
        ELSE [heap |-> r.heap, ret |-> new, err |-> NoError]

-----------------------------------------------------------------------------
(* Inputs *)

(* Constructor arguments: the defaults on a file with the canonical names  *)
(* (as exp_configs/sme.py constructs it), a file whose dimensions need     *)
(* both the id name and a rename entry, and the defaults on that file.     *)
CtorArgs ==
    { [filepath |-> "a.nc", timestamp_dim_name |-> _TS, id_dim_name |-> _ID,
       rename |-> EmptyMap],
      [filepath |-> "b.nc", timestamp_dim_name |-> _TS, id_dim_name |-> "id",
       rename |-> ("time" :> "ts")],
      [filepath |-> "b.nc", timestamp_dim_name |-> _TS, id_dim_name |-> _ID,
       rename |-> EmptyMap] }

IdArgs == { <<"1", "2">>, <<"7">> }

StartArgs == { None, Some(120) }

EndArgs == { None, Some(120) }

Nows == { 121 }

Blackouts == { 0, 1 }

ProbeArgs == { None } \cup { Some(t) : t \in 0 .. MaxProbeTs }

NoCall == [op |-> "none", self |-> 0, args |-> <<>>, err |-> NoError, ret |-> None]

NoProbe == [a |-> None, b |-> None, c |-> None, done |-> FALSE, r |-> None]

Refs == DOMAIN heap

-----------------------------------------------------------------------------
(* Actions *)

Init ==
    /\ heap = <<>>
    /\ pickled = None
    /\ last = NoCall
    /\ probe = NoProbe

Construct ==
    \E a \in CtorArgs, readable \in BOOLEAN :
        LET r == __init__(heap, a.filepath, a.timestamp_dim_name,
                          a.id_dim_name, a.rename, readable)
        IN  /\ Len(heap) < MaxInst
            /\ heap' = IF r.err = NoError THEN r.heap ELSE heap
            /\ last' = [op |-> "init", self |-> r.ret, args |-> <<a, readable>>,
                        err |-> r.err, ret |-> None]
            /\ UNCHANGED <<pickled, probe>>

Get ==
    \E o \in Refs, pv_ids \in IdArgs, start_ts \in StartArgs, end_ts \in EndArgs :
        LET r == get(heap, o, pv_ids, start_ts, end_ts)
        IN  /\ heap' = r.heap
            /\ last' = [op |-> "get", self |-> o,
                        args |-> <<pv_ids, start_ts, end_ts>>,
                        err |-> r.err, ret |-> r.ret]
            /\ UNCHANGED <<pickled, probe>>

ListPvIds ==
    \E o \in Refs :
        LET r == list_pv_ids(heap, o)
        IN  /\ heap' = r.heap
            /\ last' = [op |-> "list_pv_ids", self |-> o, args |-> <<>>,
                        err |-> r.err, ret |-> r.ret]
            /\ UNCHANGED <<pickled, probe>>

MinTs ==
    \E o \in Refs :
        LET r == min_ts(heap, o)
        IN  /\ heap' = r.heap
            /\ last' = [op |-> "min_ts", self |-> o, args |-> <<>>,
                        err |-> r.err, ret |-> r.ret]
            /\ UNCHANGED <<pickled, probe>>

MaxTs ==
    \E o \in Refs :
        LET r == max_ts(heap, o)
        IN  /\ heap' = r.heap
            /\ last' = [op |-> "max_ts", self |-> o, args |-> <<>>,
                        err |-> r.err, ret |-> r.ret]
            /\ UNCHANGED <<pickled, probe>>

WithoutFuture ==
    \E o \in Refs, ts \in Nows, blackout \in Blackouts, readable \in BOOLEAN :
        LET r == without_future(heap, o, ts, blackout, readable)
        IN  /\ Len(heap) < MaxInst
            /\ heap' = IF r.err = NoError THEN r.heap ELSE heap
            /\ last' = [op |-> "without_future", self |-> o,
                        args |-> <<ts, blackout, readable>>,
                        err |-> r.err, ret |-> r.ret]
            /\ UNCHANGED <<pickled, probe>>

Snapshot ==
    \E o \in Refs :
        LET r == __getstate__(heap, o)
        IN  /\ heap' = r.heap
            /\ pickled' = IF r.err = NoError
                          THEN [state |-> r.ret, of |-> o] ELSE pickled
            /\ last' = [op |-> "getstate", self |-> o, args |-> <<>>,
                        err |-> r.err, ret |-> r.ret]
            /\ UNCHANGED probe

Restore ==
    \E readable \in BOOLEAN :
        /\ pickled # None
        /\ Len(heap) < MaxInst
        /\ LET r == restore(heap, pickled.state, readable)
           IN  /\ heap' = IF r.err = NoError THEN r.heap ELSE heap
               /\ last' = [op |-> "setstate", self |-> r.ret,
                           args |-> <<pickled.of, readable>>,
                           err |-> r.err, ret |-> None]
        /\ UNCHANGED <<pickled, probe>>

Next ==
    \/ Construct
    \/ Get
    \/ ListPvIds
    \/ MinTs
    \/ MaxTs
    \/ WithoutFuture
    \/ Snapshot
    \/ Restore

Spec == Init /\ [][Next]_vars

-----------------------------------------------------------------------------
(* Direct evaluation of min_timestamp on arbitrary arguments *)

InitMin ==
    /\ heap = <<>>
    /\ pickled = None
    /\ last = NoCall
    /\ probe \in [a : ProbeArgs, b : ProbeArgs, c : ProbeArgs,
                  done : {FALSE}, r : {None}]

MinTimestamp ==
    /\ ~probe.done
    /\ probe' = [probe EXCEPT
                   !.done = TRUE,
                   !.r = [ab |-> min_timestamp(probe.a, probe.b),
                          ba |-> min_timestamp(probe.b, probe.a),
                          aa |-> min_timestamp(probe.a, probe.a),
                          ab_c |-> min_timestamp(min_timestamp(probe.a, probe.b),
                                                 probe.c),
                          a_bc |-> min_timestamp(probe.a,
                                                 min_timestamp(probe.b, probe.c))]]
    /\ UNCHANGED <<heap, pickled, last>>

NextMin == MinTimestamp

SpecMin == InitMin /\ [][NextMin]_vars

-----------------------------------------------------------------------------
(* Vocabulary of the properties.  None as a bound means "unbounded": it    *)
(* is stated here by the order itself, independently of min_timestamp.     *)

LeqOpt(a, b) == b = None \/ (a # None /\ a[1] <= b[1])

CombineMin(a, b) == CHOOSE x \in {a, b} : LeqOpt(x, a) /\ LeqOpt(x, b)

Cutoff(o) == heap[o]["_max_ts"]

StorageTs(o) == Files[heap[o]["_path"]].ts

StorageIds(o) == Range(astype_str(Files[heap[o]["_path"]].ids))

Visible(o) == {t \in StorageTs(o) : Cutoff(o) = None \/ t <= Cutoff(o)[1]}

Adjusted(ts, blackout) == ts - 60 * blackout - 1

Outcome(r) == [err |-> r.err, ret |-> r.ret]

Queries == IdArgs \X StartArgs \X EndArgs

Obs(h, o) ==
    [list_pv_ids |-> Outcome(list_pv_ids(h, o)),
     min_ts |-> Outcome(min_ts(h, o)),
     max_ts |-> Outcome(max_ts(h, o)),
     get |-> [q \in Queries |-> Outcome(get(h, o, q[1], q[2], q[3]))]]

SnapshotFields ==
    {"_path", "_timestamp_dim_name", "_id_dim_name", "_rename", "_max_ts"}

GetOk == last.op = "get" /\ last.err = NoError

DerivedOk == last.op = "without_future" /\ last.err = NoError

RestoredOk == last.op = "setstate" /\ last.err = NoError

-----------------------------------------------------------------------------
(* C1: every timestamp returned by get(ids, start, end) lies in            *)
(* [start, min(end, storage_max_ts, cutoff)], an omitted bound being       *)
(* unbounded, whatever sequence of constructions, derivations and          *)
(* snapshot/restore cycles produced the instance.                          *)
C1_GetWithinWindow ==
    GetOk =>
        \A t \in last.ret.ts :
            /\ last.args[2] = None \/ last.args[2][1] <= t
            /\ last.args[3] = None \/ t <= last.args[3][1]
            /\ t <= SetMax(StorageTs(last.self))
            /\ Cutoff(last.self) = None \/ t <= Cutoff(last.self)[1]

(* a get whose cutoff is what removes a stored timestamp from the window *)
C1_Witness ==
    /\ GetOk
    /\ Cutoff(last.self) # None
    /\ last.ret.ts # {}
    /\ \E t \in StorageTs(last.self) :
          /\ t > Cutoff(last.self)[1]
          /\ InSlice(t, last.args[2], last.args[3])

(* C2: ds.without_future(now, blackout).max_ts() is at most                *)
(* now - blackout minutes - 1 second, hence strictly before now, whatever  *)
(* the cutoff of ds.                                                       *)
C2_WithoutFutureBound ==
    DerivedOk =>
        LET m == max_ts(heap, last.ret)
        IN  /\ m.err = NoError
            /\ m.ret # None
            /\ m.ret[1] <= Adjusted(last.args[1], last.args[2])
            /\ m.ret[1] < last.args[1]

(* a derivation with a blackout from an instance that already has a cutoff *)
C2_Witness ==
    /\ DerivedOk
    /\ last.args[2] > 0
    /\ Cutoff(last.self) # None
    /\ max_ts(heap, last.ret).ret = Some(Adjusted(last.args[1], last.args[2]))

(* C3: a derived instance's cutoff is combine_min(parent cutoff,           *)
(* now-adjusted), never wider than the parent's; deriving again gives      *)
(* combine_min(combine_min(cutoff, t1-adjusted), t2-adjusted), the same    *)
(* in either order of the two derivations.                                 *)
C3_MonotonicNarrowing ==
    DerivedOk =>
        LET ds == last.self
            d1 == last.ret
            a1 == Some(Adjusted(last.args[1], last.args[2]))
        IN  /\ Cutoff(d1) = CombineMin(Cutoff(ds), a1)
            /\ LeqOpt(Cutoff(d1), Cutoff(ds))
            /\ \A t2 \in Nows, b2 \in Blackouts :
                  LET a2 == Some(Adjusted(t2, b2))
                      r12 == without_future(heap, d1, t2, b2, TRUE)
                      r2 == without_future(heap, ds, t2, b2, TRUE)
                      r21 == without_future(r2.heap, r2.ret, last.args[1],
                                            last.args[2], TRUE)
                  IN  /\ r12.err = NoError /\ r21.err = NoError
                      /\ r12.heap[r12.ret]["_max_ts"]
                            = CombineMin(CombineMin(Cutoff(ds), a1), a2)
                      /\ r12.heap[r12.ret]["_max_ts"]
                            = r21.heap[r21.ret]["_max_ts"]
                      /\ LeqOpt(r12.heap[r12.ret]["_max_ts"], Cutoff(d1))

(* a second derivation, from an instance that is itself derived, that      *)
(* keeps the parent's narrower cutoff                                      *)
C3_Witness ==
    /\ DerivedOk
    /\ Cutoff(last.self) # None
    /\ Cutoff(last.ret) = Cutoff(last.self)
    /\ Adjusted(last.args[1], last.args[2]) > Cutoff(last.self)[1]

(* C4: once an instance exists none of its fields, cutoff and backing      *)
(* handle included, is changed by any operation (get, list_pv_ids, min_ts, *)
(* max_ts, without_future, snapshot, restore, construction of others); a   *)
(* constructed instance starts with cutoff None.                           *)
C4_ReceiverUnchanged ==
    [][ /\ \A o \in DOMAIN heap : o \in DOMAIN heap' /\ heap'[o] = heap[o]
        /\ (last'.op = "init" /\ last'.err = NoError)
              => heap'[last'.self]["_max_ts"] = None ]_vars

(* a derivation has just given its copy a cutoff other than the receiver's *)
C4_Witness ==
    /\ DerivedOk
    /\ Cutoff(last.ret) # Cutoff(last.self)
    /\ pickled # None

(* C5: restore(snapshot(ds)) answers list_pv_ids, min_ts, max_ts and every *)
(* get as ds does, and has the cutoff of ds.                               *)
C5_RoundTrip ==
    RestoredOk =>
        /\ Cutoff(last.self) = Cutoff(last.args[1])
        /\ Obs(heap, last.self) = Obs(heap, last.args[1])

(* the restored instance comes from a derived one whose cutoff hides data *)
C5_Witness ==
    /\ RestoredOk
    /\ Cutoff(last.args[1]) # None
    /\ Visible(last.args[1]) # StorageTs(last.args[1])
    /\ Visible(last.args[1]) # {}

(* C6: get with an id that is not in the store fails with NotFound and     *)
(* changes nothing: every instance keeps its fields (cutoff and handle),   *)
(* the snapshot in flight is untouched, and the receiver answers every     *)
(* call as before.  The answers of the other instances depend only on      *)
(* their unchanged fields.                                                 *)
C6_NotFoundLeavesUsable ==
    [][ last'.op = "get" =>
          /\ (\E k \in DOMAIN last'.args[1] :
                 last'.args[1][k] \notin StorageIds(last'.self))
                => last'.err = "NotFound"
          /\ last'.err = "NotFound" =>
                /\ heap' = heap
                /\ pickled' = pickled
                /\ Obs(heap', last'.self) = Obs(heap, last'.self) ]_vars

(* a failed get on one of several instances *)
C6_Witness ==
    /\ last.op = "get"
    /\ last.err = "NotFound"
    /\ Len(heap) >= 2
    /\ \E k \in DOMAIN last.args[1] : last.args[1][k] \notin StorageIds(last.self)

(* C7 as stated: min_ts() is the smallest timestamp visible under the      *)
(* cutoff, for every cutoff.                                               *)
C7_MinTsIsSmallestVisible ==
    (last.op = "min_ts" /\ last.err = NoError) =>
        /\ Visible(last.self) # {}
        /\ last.ret = Some(SetMin(Visible(last.self)))

(* C7 amended: min_ts() is combine_min(storage_min_ts, cutoff); that is    *)
(* the smallest visible timestamp when one is visible, and the cutoff      *)
(* itself when the cutoff is earlier than every stored timestamp.          *)
C7_MinTsFormula ==
    (last.op = "min_ts" /\ last.err = NoError) =>
        /\ last.ret = CombineMin(Some(SetMin(StorageTs(last.self))),
                                 Cutoff(last.self))
        /\ Visible(last.self) # {}
              => last.ret = Some(SetMin(Visible(last.self)))
        /\ Visible(last.self) = {} => last.ret = Cutoff(last.self)

(* min_ts on an instance whose cutoff is before the store's first timestamp *)
C7_Witness ==
    /\ last.op = "min_ts"
    /\ last.err = NoError
    /\ Visible(last.self) = {}

(* C8: min_timestamp treats None as +infinity and is commutative,          *)
(* associative and idempotent.                                             *)
C8_MinTimestampAlgebra ==
    probe.done =>
        /\ probe.r.ab = CombineMin(probe.a, probe.b)
        /\ (probe.a = None /\ probe.b = None) => probe.r.ab = None
        /\ probe.b = None => probe.r.ab = probe.a
        /\ probe.a = None => probe.r.ab = probe.b
        /\ (probe.a # None /\ probe.b # None)
              => probe.r.ab = Some(IF probe.a[1] <= probe.b[1]
                                   THEN probe.a[1] ELSE probe.b[1])
        /\ probe.r.ab = probe.r.ba
        /\ probe.r.ab_c = probe.r.a_bc
        /\ probe.r.aa = probe.a

(* an evaluation mixing None with two different timestamps *)
C8_Witness ==
    /\ probe.done
    /\ probe.a = None
    /\ probe.b # None /\ probe.c # None
    /\ probe.c[1] < probe.b[1]
    /\ probe.r.ab_c = probe.c

(* C9: the snapshot of any instance is a mapping over exactly the path,    *)
(* the two dimension names, the rename table and the cutoff, with the      *)
(* instance's current values, and has no backing handle.                   *)
C9_SnapshotFields ==
    /\ \A o \in Refs :
          LET s == __getstate__(heap, o)
          IN  /\ s.err = NoError
              /\ DOMAIN s.ret = SnapshotFields
              /\ \A k \in SnapshotFields : s.ret[k] = heap[o][k]
    /\ pickled # None =>
          /\ DOMAIN pickled.state = SnapshotFields
          /\ \A k \in SnapshotFields : pickled.state[k] = heap[pickled.of][k]

(* a snapshot of a derived instance is in flight *)
C9_Witness ==
    /\ pickled # None
    /\ pickled.state["_max_ts"] # None
    /\ last.op = "getstate"

(* C10 as stated: after restore the instance has no handle until its first *)
(* use.                                                                    *)
C10_DetachedAfterRestore ==
    RestoredOk => "_data" \notin DOMAIN heap[last.self]

(* C10 amended: restore itself reopens the recorded location: a restored   *)
(* instance holds its own freshly opened handle as soon as restore         *)
(* returns, a storage error is raised by restore and yields no instance,   *)
(* and no instance is ever without a handle.                               *)
C10_ReopenDuringRestore ==
    /\ \A o \in Refs :
          /\ "_data" \in DOMAIN heap[o]
          /\ heap[o]["_data"].handle = o
    /\ last.op = "setstate" =>
          /\ last.args[2] => last.err = NoError
          /\ ~last.args[2] => (last.err = "StorageIO" /\ last.self = 0)
          /\ last.err = NoError =>
                /\ last.self = Len(heap)
                /\ heap[last.self]["_data"].ds[_TS] = StorageTs(last.self)

(* a restore that has just returned an instance of a derived data source *)
C10_Witness ==
    /\ RestoredOk
    /\ "_data" \in DOMAIN heap[last.self]
    /\ Cutoff(last.self) # None

====
